---- MODULE Spec2Model ----
(***************************************************************************)
(* Model of the real-time session layer of corso-portal:                   *)
(*   src/src/hooks/useWebSocket.ts  (connection manager hook)              *)
(*   src/src/pages/dashboard-demo.tsx, src/unnamed/part_000                *)
(*                                  (usage / fleet consumer hooks)         *)
(*                                                                         *)
(* useWebSocket is a React hook.  Every callback it creates (sendMessage,  *)
(* subscribe, processMessageQueue, ping, connect) closes over the          *)
(* connectionState of the render that created it.  The socket handlers and *)
(* the timers installed by one connect() call keep the callbacks of that   *)
(* render for as long as the socket lives; snap[s] is that render's        *)
(* connectionState.  A caller (a component, an effect) uses the callbacks  *)
(* of the latest render, i.e. the current connectionState.  Functional     *)
(* updates setConnectionState(prev => ...) apply to the current state.     *)
(*                                                                         *)
(* The transport (socket.io-client) is the environment: per socket it      *)
(* delivers connect, connect_error, disconnect and message events.         *)
(* A socket slot is reused once nothing refers to the closed socket it     *)
(* held (Finish), so MaxSockets bounds the sockets that exist at one time, *)
(* not the number of connection attempts.                                  *)
(***************************************************************************)
EXTENDS Integers, Sequences, FiniteSets, TLC

(* ---- bounds of the model ---- *)
MaxSockets == 2
MaxQueue == 3
MaxPendingAuth == 1
MaxClock == 2
MaxWarnings == 3
MaxAlerts == 4
MaxCalls == 3

(* ---- options and program constants (units: seconds) ---- *)
MaxReconnectAttempts == 3
ReconnectInterval == 5
MaxDelay == 30

Sockets == 1..MaxSockets
NoSocket == 0

InitialSubs == {"usage_updates", "agent_status", "quota_warnings", "alerts"}

(* consumer hooks sharing the manager: two mounted instances of            *)
(* useRealTimeUsage and one of useAgentStatus                              *)
Consumers == {"usage", "usage2", "fleet"}
ConsumerTopics(c) ==
  IF c \in {"usage", "usage2"} THEN {"usage_updates", "quota_warnings"}
  ELSE {"agent_status", "layer_routing"}
ConsumerQuery(c) == IF c \in {"usage", "usage2"} THEN "get_usage" ELSE "get_agent_status"
(* topic sets a caller passes to subscribe() / unsubscribe(): one of the    *)
(* initial subscriptions and one topic outside them                        *)
CallerTopicSets == {{"alerts"}, {"layer_routing"}}
CallerTypes == {"get_usage"}

VARIABLES
  connected, authenticated, connecting, error, retryCount, userInfo,
  socketRef, reconnectTimeoutRef, pingIntervalRef,
  messageQueue, pendingSubscriptions,
  sockStatus, snap, pingLive, reconLive,
  emitted, authPending, serverSubs,
  active, registered,
  failures, countFailures, trackSubs, emitFaults,
  lastPong, now, delivered, loading, usageState, fleetState

connVars == <<connected, authenticated, connecting, error, retryCount, userInfo>>
refVars == <<socketRef, reconnectTimeoutRef, pingIntervalRef>>
msgVars == <<messageQueue, emitted>>
sockVars == <<sockStatus, snap, pingLive, reconLive>>
consVars == <<active, registered>>
modeVars == <<countFailures, trackSubs, emitFaults>>
histVars == <<failures, modeVars>>
srvVars == <<authPending, serverSubs>>
managerVars == <<connVars, refVars, msgVars, pendingSubscriptions, sockVars, srvVars,
                 consVars, histVars>>
hookVars == <<lastPong, now, delivered, loading, usageState, fleetState>>
vars == <<connVars, refVars, msgVars, pendingSubscriptions, sockVars, srvVars,
          consVars, histVars, hookVars>>

InitialSnap == [connected |-> FALSE, authenticated |-> FALSE, retryCount |-> 0]

(* useState initial values of the two consumer hooks *)
(* a nullable object, and the agents map that starts empty, is a sequence  *)
(* of length 0 or 1; the times lastPong = 0 and lastUpdate = 0 stand for   *)
(* null                                                                    *)
InitialUsageState ==
  [usage |-> <<>>, analytics |-> <<>>, quotaWarnings |-> <<>>, error |-> "null",
   lastUpdate |-> 0, isRealTime |-> FALSE]

InitialFleetState ==
  [agents |-> <<>>, collectiveStatus |-> "unknown", healthScore |-> 0,
   layerRouting |-> <<>>, alerts |-> <<>>, error |-> "null", lastUpdate |-> 0]

(* now is the value of Date.now(); delivered lists the callbacks the last  *)
(* inbound envelope was handed to                                          *)
InitHooks ==
  /\ lastPong = 0
  /\ now = 1
  /\ delivered = <<>>
  /\ loading = [c \in Consumers |-> FALSE]
  /\ usageState = InitialUsageState
  /\ fleetState = InitialFleetState

InitBase ==
  /\ InitHooks
  /\ connected = FALSE
  /\ authenticated = FALSE
  /\ connecting = FALSE
  /\ error = "none"
  /\ retryCount = 0
  /\ userInfo = "none"
  /\ socketRef = NoSocket
  /\ reconnectTimeoutRef = NoSocket
  /\ pingIntervalRef = NoSocket
  /\ messageQueue = <<>>
  /\ pendingSubscriptions = InitialSubs
  /\ sockStatus = [s \in Sockets |-> "none"]
  /\ snap = [s \in Sockets |-> InitialSnap]
  /\ pingLive = [s \in Sockets |-> FALSE]
  /\ reconLive = [s \in Sockets |-> FALSE]
  /\ emitted = <<>>
  /\ authPending = [s \in Sockets |-> 0]
  /\ serverSubs = [s \in Sockets |-> {}]
  /\ active = [c \in Consumers |-> TRUE]
  /\ registered = [c \in Consumers |-> FALSE]
  /\ failures = 0

(* socket.emit and io() do not throw in the behaviours of Init; the catch   *)
(* branches are taken only when emitFaults is set.  The two history        *)
(* variables are kept only in the behaviours that set their switch:        *)
(*   failures   (countFailures) the non-manual drops of an established     *)
(*              connection (disconnect events) since the last successful   *)
(*              authentication or manual disconnect                        *)
(*   serverSubs (trackSubs) per connection, the topics the peer holds      *)
(*              subscribed from the subscribe and unsubscribe envelopes    *)
(*              it received on that connection                             *)
Init == InitBase /\ emitFaults = FALSE /\ countFailures = FALSE /\ trackSubs = FALSE

(* the state after the mount effect has run with autoConnect: its          *)
(* connect() has created the first socket                                  *)
InitMounted ==
  /\ InitHooks
  /\ connected = FALSE
  /\ authenticated = FALSE
  /\ connecting = TRUE
  /\ error = "none"
  /\ retryCount = 0
  /\ userInfo = "none"
  /\ socketRef = 1
  /\ reconnectTimeoutRef = NoSocket
  /\ pingIntervalRef = NoSocket
  /\ messageQueue = <<>>
  /\ pendingSubscriptions = InitialSubs
  /\ sockStatus = [s \in Sockets |-> IF s = 1 THEN "opening" ELSE "none"]
  /\ snap = [s \in Sockets |-> InitialSnap]
  /\ pingLive = [s \in Sockets |-> FALSE]
  /\ reconLive = [s \in Sockets |-> FALSE]
  /\ emitted = <<>>
  /\ authPending = [s \in Sockets |-> 0]
  /\ serverSubs = [s \in Sockets |-> {}]
  /\ active = [c \in Consumers |-> TRUE]
  /\ registered = [c \in Consumers |-> FALSE]
  /\ failures = 0

InitRetry == InitMounted /\ emitFaults = FALSE /\ countFailures = TRUE /\ trackSubs = FALSE

InitSubs == InitBase /\ emitFaults = FALSE /\ countFailures = FALSE /\ trackSubs = TRUE

ThrowChoices == IF emitFaults THEN BOOLEAN ELSE {FALSE}

(* ---- helpers ---- *)
Min(a, b) == IF a < b THEN a ELSE b

Failed == IF countFailures THEN Min(failures + 1, MaxReconnectAttempts + 1) ELSE failures

RECURSIVE Pow2(_)
Pow2(n) == IF n = 0 THEN 1 ELSE 2 * Pow2(n - 1)

(* the outbound queue and the envelopes the running operation has emitted *)
Mem(q, o) == [queue |-> q, out |-> o]
CurMem == Mem(messageQueue, <<>>)

(* socket.emit('message', e) on socket s *)
Emit(o, s, e) == Append(o, [sock |-> s, env |-> e])

(* a sendMessage whose catch branch drops the envelope *)
sendMessageDropsOnThrow(m, sref, conn, type, topics, thr) ==
  LET e == [type |-> type, topics |-> topics]
  IN IF sref # NoSocket /\ conn
       THEN IF thr THEN m ELSE [m EXCEPT !.out = Emit(@, sref, e)]
       ELSE [m EXCEPT !.queue = Append(@, e)]

(* a sendMessage that emits whenever a socket exists, connected or not *)
sendMessageUngated(m, sref, conn, type, topics, thr) ==
  LET e == [type |-> type, topics |-> topics]
  IN IF sref # NoSocket /\ ~thr
       THEN [m EXCEPT !.out = Emit(@, sref, e)]
       ELSE [m EXCEPT !.queue = Append(@, e)]

(* sendMessage as seen by a closure whose connectionState.connected is conn *)
sendMessage(m, sref, conn, type, topics, thr) ==
  LET e == [type |-> type, topics |-> topics]
  IN IF sref # NoSocket /\ conn /\ ~thr
       THEN [m EXCEPT !.out = Emit(@, sref, e)]
       ELSE [m EXCEPT !.queue = Append(@, e)]

(* the envelopes of q at the positions in keep, in order *)
RECURSIVE SubSeqAt(_, _, _)
SubSeqAt(q, keep, i) ==
  IF i > Len(q) THEN <<>>
  ELSE (IF i \in keep THEN <<q[i]>> ELSE <<>>) \o SubSeqAt(q, keep, i + 1)

(* processMessageQueue as seen by a closure whose connected is conn;       *)
(* bad = positions of the queued envelopes whose emit throws               *)
processMessageQueue(m, sref, conn, bad) ==
  IF sref # NoSocket /\ conn /\ Len(m.queue) > 0
    THEN LET sent == SubSeqAt(m.queue, DOMAIN m.queue \ bad, 1)
         IN [queue |-> SubSeqAt(m.queue, bad, 1),
             out |-> m.out \o [i \in 1..Len(sent) |-> [sock |-> sref, env |-> sent[i]]]]
    ELSE m

(* subscribe as seen by a closure with (conn, auth); returns <<mem, pending>> *)
subscribe(m, pend, sref, conn, auth, topics, thr) ==
  IF auth
    THEN <<sendMessage(m, sref, conn, "subscribe", topics, thr), pend>>
    ELSE <<m, pend \cup topics>>

(* the "initial subscriptions" effect: re-run by React after a render in   *)
(* which authenticated or the identity of subscribe (authenticated,        *)
(* connected) changed                                                      *)
initialSubscriptionsEffect(m, sref, connOld, authOld, connNew, authNew, thr) ==
  IF (connOld # connNew \/ authOld # authNew) /\ authNew /\ InitialSubs # {}
    THEN sendMessage(m, sref, connNew, "subscribe", InitialSubs, thr)
    ELSE m

(* delay handed to setTimeout by the disconnect handler of a closure c *)
reconnectDelay(c) == Min(ReconnectInterval * Pow2(c.retryCount), MaxDelay)

(* ---- the peer's view of one connection ---- *)
(* number of auth envelopes among the emissions o that went to socket s *)
AuthCount(o, s) == Cardinality({i \in 1..Len(o) : o[i].sock = s /\ o[i].env.type = "auth"})

(* topics the peer has active for socket s after the emissions o *)
RECURSIVE ApplySubs(_, _, _)
ApplySubs(subs, o, s) ==
  IF o = <<>> THEN subs
  ELSE LET h == Head(o)
           next == IF h.sock # s THEN subs
                   ELSE IF h.env.type = "subscribe" THEN subs \cup h.env.topics
                   ELSE IF h.env.type = "unsubscribe" THEN subs \ h.env.topics
                   ELSE subs
       IN ApplySubs(next, Tail(o), s)

(* sockets that are garbage: closed, and neither ref (socketRef) nor a     *)
(* live timer (pl, rl) refers to them                                      *)
Dead(st, ref, pl, rl) == {s \in Sockets : st[s] = "closed" /\ ref # s /\ ~pl[s] /\ ~rl[s]}

(* End of every operation: st, sn, ap, ss are the operation's socket       *)
(* status, snapshots, unanswered auth counts and subscribed topics, m its  *)
(* queue and emissions.  The slot of a garbage socket is freed.  The queue *)
(* is capped at MaxQueue; the peer answers at most MaxPendingAuth of the   *)
(* auth envelopes it has not answered yet.                                 *)
FinishIO(st, sn, ap, ss, m) ==
  \E mm \in {m} :
    /\ Len(mm.queue) <= MaxQueue
    /\ messageQueue' = mm.queue
    /\ \E dead \in {Dead(st, socketRef', pingLive', reconLive')} :
         /\ sockStatus' = [s \in Sockets |-> IF s \in dead THEN "none" ELSE st[s]]
         /\ snap' = [s \in Sockets |-> IF s \in dead THEN InitialSnap ELSE sn[s]]
         /\ authPending' = [s \in Sockets |->
                              IF s \in dead THEN 0
                                ELSE Min(MaxPendingAuth, ap[s] + AuthCount(mm.out, s))]
         /\ serverSubs' = [s \in Sockets |->
                             IF s \in dead \/ ~trackSubs THEN {}
                               ELSE ApplySubs(ss[s], mm.out, s)]
         /\ emitted' = [i \in 1..Len(mm.out) |->
                          IF mm.out[i].sock \in dead
                            THEN [mm.out[i] EXCEPT !.sock = NoSocket]
                            ELSE mm.out[i]]

(* end of an operation of the connection manager: the consumer hooks and   *)
(* the observers are not involved                                          *)
Finish(st, sn, ap, ss, m) == FinishIO(st, sn, ap, ss, m) /\ UNCHANGED hookVars

(* ---- connect(): shared by the caller's call and the timer callback ---- *)
(* c = connectionState of the render whose connect() is running; sets      *)
(* connecting, error, socketRef and the sockets                            *)
connect(c, ioThrows) ==
  IF socketRef # NoSocket /\ sockStatus[socketRef] = "open"
    THEN /\ UNCHANGED <<connecting, error, socketRef>>
         /\ Finish(sockStatus, snap, authPending, serverSubs, CurMem)
    ELSE IF ioThrows
      THEN /\ connecting' = FALSE
           /\ error' = "connect_failed"
           /\ UNCHANGED socketRef
           /\ Finish(sockStatus, snap, authPending, serverSubs, CurMem)
      ELSE \E free \in {{s \in Sockets : sockStatus[s] = "none"}
                        \cup Dead(sockStatus, NoSocket, pingLive', reconLive')} :
             /\ free # {}
             /\ \E new \in {s \in free : \A t \in free : s <= t} :
                  /\ connecting' = TRUE
                  /\ error' = "none"
                  /\ socketRef' = new
                  /\ Finish([sockStatus EXCEPT ![new] = "opening"],
                            [snap EXCEPT ![new] = c],
                            [authPending EXCEPT ![new] = 0],
                            [serverSubs EXCEPT ![new] = {}], CurMem)

(* ---- operations invoked by callers (components, latest render) ---- *)
Connect ==
  /\ UNCHANGED <<pingLive, reconLive>>
  /\ \E ioThrows \in ThrowChoices :
       connect([connected |-> connected, authenticated |-> authenticated,
                retryCount |-> retryCount], ioThrows)
  /\ UNCHANGED <<connected, authenticated, retryCount, userInfo,
                 reconnectTimeoutRef, pingIntervalRef, pendingSubscriptions,
                 consVars, histVars>>

Disconnect ==
  /\ reconLive' = IF reconnectTimeoutRef # NoSocket
                    THEN [reconLive EXCEPT ![reconnectTimeoutRef] = FALSE]
                    ELSE reconLive
  /\ reconnectTimeoutRef' = NoSocket
  /\ pingLive' = IF pingIntervalRef # NoSocket
                   THEN [pingLive EXCEPT ![pingIntervalRef] = FALSE]
                   ELSE pingLive
  /\ pingIntervalRef' = NoSocket
  /\ socketRef' = NoSocket
  /\ connected' = FALSE
  /\ authenticated' = FALSE
  /\ connecting' = FALSE
  /\ error' = "none"
  /\ retryCount' = 0
  /\ userInfo' = "none"
  /\ lastPong' = 0
  /\ FinishIO(IF socketRef # NoSocket
                THEN [sockStatus EXCEPT ![socketRef] = "closed"]
                ELSE sockStatus,
              snap, authPending, serverSubs, CurMem)
  /\ failures' = 0
  /\ UNCHANGED <<pendingSubscriptions, consVars, modeVars, now, delivered, loading,
                 usageState, fleetState>>

CallerSend(type, topics) ==
  /\ UNCHANGED <<connVars, refVars, pingLive, reconLive>>
  /\ \E thr \in ThrowChoices :
       Finish(sockStatus, snap, authPending, serverSubs,
              sendMessage(CurMem, socketRef, connected, type, topics, thr))
  /\ UNCHANGED <<pendingSubscriptions, consVars, histVars>>

SendMessage == \E type \in CallerTypes : CallerSend(type, {})

Authenticate == CallerSend("auth", {})

Unsubscribe == \E ts \in CallerTopicSets : CallerSend("unsubscribe", ts)

Subscribe ==
  /\ UNCHANGED <<connVars, refVars, pingLive, reconLive>>
  /\ \E ts \in CallerTopicSets, thr \in ThrowChoices :
       LET r == subscribe(CurMem, pendingSubscriptions, socketRef, connected,
                          authenticated, ts, thr)
       IN /\ Finish(sockStatus, snap, authPending, serverSubs, r[1])
          /\ pendingSubscriptions' = r[2]
  /\ UNCHANGED <<consVars, histVars>>

(* subscription effect of a consumer hook (useRealTimeUsage / useAgentStatus) *)
ConsumerEffect(c) ==
  /\ active[c]
  /\ authenticated
  /\ UNCHANGED <<connVars, refVars, pingLive, reconLive>>
  /\ \E thr \in ThrowChoices :
       LET r == subscribe(CurMem, pendingSubscriptions, socketRef, connected,
                          authenticated, ConsumerTopics(c), thr)
       IN /\ FinishIO(sockStatus, snap, authPending, serverSubs,
                      sendMessage(r[1], socketRef, connected, ConsumerQuery(c), {}, thr))
          /\ pendingSubscriptions' = r[2]
  /\ registered' = [registered EXCEPT ![c] = TRUE]
  /\ loading' = [loading EXCEPT ![c] = FALSE]
  /\ UNCHANGED <<active, histVars, lastPong, now, delivered, usageState, fleetState>>

(* the consumer's component unmounts; the effect has no cleanup function *)
Deactivate(c) ==
  /\ active[c]
  /\ active' = [active EXCEPT ![c] = FALSE]
  /\ emitted' = <<>>
  /\ UNCHANGED <<connVars, refVars, messageQueue, pendingSubscriptions, sockVars,
                 srvVars, registered, histVars, hookVars>>

(* ---- transport events (handlers installed by connect()) ---- *)
(* socket.on('connect') *)
SocketConnect(s) ==
  /\ sockStatus[s] = "opening"
  /\ connected' = TRUE
  /\ connecting' = FALSE
  /\ error' = "none"
  /\ retryCount' = 0
  /\ reconLive' = IF reconnectTimeoutRef # NoSocket
                    THEN [reconLive EXCEPT ![reconnectTimeoutRef] = FALSE]
                    ELSE reconLive
  /\ reconnectTimeoutRef' = NoSocket
  /\ pingIntervalRef' = s
  /\ pingLive' = [pingLive EXCEPT ![s] = TRUE]
  /\ UNCHANGED socketRef
  /\ \E thr \in ThrowChoices :
       LET m1 == sendMessage(CurMem, socketRef, snap[s].connected, "auth", {}, thr)
       IN \E bad \in (IF emitFaults THEN SUBSET DOMAIN m1.queue ELSE {{}}) :
            LET m2 == processMessageQueue(m1, socketRef, snap[s].connected, bad)
                m3 == initialSubscriptionsEffect(m2, socketRef, connected, authenticated,
                                                 TRUE, authenticated, thr)
            IN Finish([sockStatus EXCEPT ![s] = "open"], snap, authPending, serverSubs, m3)
  /\ UNCHANGED <<authenticated, userInfo, pendingSubscriptions, consVars, histVars>>

(* socket.on('disconnect', reason) with reason other than 'io client disconnect' *)
SocketDisconnect(s) ==
  /\ sockStatus[s] = "open"
  /\ connected' = FALSE
  /\ authenticated' = FALSE
  /\ connecting' = FALSE
  /\ pingLive' = IF pingIntervalRef # NoSocket
                   THEN [pingLive EXCEPT ![pingIntervalRef] = FALSE]
                   ELSE pingLive
  /\ pingIntervalRef' = NoSocket
  /\ failures' = Failed
  /\ IF snap[s].retryCount < MaxReconnectAttempts
       THEN /\ reconnectTimeoutRef' = s
            /\ reconLive' = [reconLive EXCEPT ![s] = TRUE]
       ELSE UNCHANGED <<reconnectTimeoutRef, reconLive>>
  /\ UNCHANGED socketRef
  /\ Finish([sockStatus EXCEPT ![s] = "closed"], snap, authPending, serverSubs, CurMem)
  /\ UNCHANGED <<error, retryCount, userInfo, pendingSubscriptions, consVars,
                 modeVars>>

(* socket.on('connect_error'); the library either keeps trying to open the *)
(* same socket or gives it up                                              *)
SocketConnectError(s) ==
  /\ sockStatus[s] = "opening"
  /\ connected' = FALSE
  /\ connecting' = FALSE
  /\ error' = "connect_error"
  /\ UNCHANGED <<refVars, pingLive, reconLive>>
  /\ \E st \in {"opening", "closed"}, thr \in ThrowChoices :
       Finish([sockStatus EXCEPT ![s] = st], snap, authPending, serverSubs,
              initialSubscriptionsEffect(CurMem, socketRef, connected, authenticated,
                                         FALSE, authenticated, thr))
  /\ UNCHANGED <<authenticated, retryCount, userInfo, pendingSubscriptions, consVars,
                 histVars>>

(* socket.on('message') with type auth_result, data.success = true *)
AuthResultOk(s) ==
  /\ sockStatus[s] = "open"
  /\ authPending[s] > 0
  /\ authenticated' = TRUE
  /\ userInfo' = "user"
  /\ UNCHANGED <<refVars, pingLive, reconLive>>
  /\ \E thr \in ThrowChoices :
       LET r == IF pendingSubscriptions # {}
                  THEN subscribe(CurMem, pendingSubscriptions, socketRef,
                                 snap[s].connected, snap[s].authenticated,
                                 pendingSubscriptions, thr)
                  ELSE <<CurMem, pendingSubscriptions>>
           m2 == initialSubscriptionsEffect(r[1], socketRef, connected, authenticated,
                                            connected, TRUE, thr)
       IN Finish(sockStatus, snap, [authPending EXCEPT ![s] = @ - 1], serverSubs, m2)
  /\ pendingSubscriptions' = {}
  /\ failures' = 0
  /\ UNCHANGED <<connected, connecting, error, retryCount, consVars, modeVars>>

(* an auth_result failure handler that also marks the connection down *)
AuthResultFailedDisconnects(s) ==
  /\ sockStatus[s] = "open"
  /\ authPending[s] > 0
  /\ authenticated' = FALSE
  /\ connected' = FALSE
  /\ error' = "auth_failed"
  /\ UNCHANGED <<refVars, pingLive, reconLive>>
  /\ Finish(sockStatus, snap, [authPending EXCEPT ![s] = @ - 1], serverSubs, CurMem)
  /\ UNCHANGED <<connecting, retryCount, userInfo, pendingSubscriptions,
                 consVars, histVars>>

(* socket.on('message') with type auth_result, data.success falsy *)
AuthResultFailed(s) ==
  /\ sockStatus[s] = "open"
  /\ authPending[s] > 0
  /\ authenticated' = FALSE
  /\ error' = "auth_failed"
  /\ UNCHANGED <<refVars, pingLive, reconLive>>
  /\ Finish(sockStatus, snap, [authPending EXCEPT ![s] = @ - 1], serverSubs, CurMem)
  /\ UNCHANGED <<connected, connecting, retryCount, userInfo, pendingSubscriptions,
                 consVars, histVars>>

(* ---- timers ---- *)
(* the setTimeout callback scheduled by socket s's disconnect handler *)
ReconnectTimerFires(s) ==
  /\ reconLive[s]
  /\ reconLive' = [reconLive EXCEPT ![s] = FALSE]
  /\ UNCHANGED pingLive
  /\ retryCount' = retryCount + 1
  /\ \E ioThrows \in ThrowChoices : connect(snap[s], ioThrows)
  /\ UNCHANGED <<connected, authenticated, userInfo, reconnectTimeoutRef,
                 pingIntervalRef, pendingSubscriptions, consVars, histVars>>

(* one tick of the setInterval started by socket s's connect handler *)
PingTimerFires(s) ==
  /\ pingLive[s]
  /\ UNCHANGED <<connVars, refVars, pingLive, reconLive>>
  /\ \E thr \in ThrowChoices :
       Finish(sockStatus, snap, authPending, serverSubs,
              sendMessage(CurMem, socketRef, snap[s].connected, "ping", {}, thr))
  /\ UNCHANGED <<pendingSubscriptions, consVars, histVars>>

(* ---- inbound envelopes ---- *)
(* the agents of KJVA8_AGENTS, in the key order of the payload's agents map *)
AgentOrder ==
  <<"K1NGxDAV1D", "3L1J4H", "M3LCH1Z3D3K", "M0S3S", "D4N13L", "J05HU4", "3Z3K13L",
    "IESOUS">>
AgentNames == {AgentOrder[i] : i \in DOMAIN AgentOrder}

(* AgentStatus records; error_rate is in thousandths (0.05 is 50) *)
AgentActive == [status |-> "active", response_time_ms |-> 200, error_rate |-> 10]
AgentAtThreshold == [status |-> "active", response_time_ms |-> 1000, error_rate |-> 50]
AgentSlow == [status |-> "active", response_time_ms |-> 1500, error_rate |-> 10]
AgentFlaky == [status |-> "maintenance", response_time_ms |-> 200, error_rate |-> 80]
AgentError == [status |-> "error", response_time_ms |-> 1500, error_rate |-> 80]

(* AgentStatusMessage payloads: all agents active; one agent in error among *)
(* seven active ones; a mixed fleet                                        *)
AllActive ==
  [agents |-> [a \in AgentNames |-> AgentActive],
   collective_status |-> "healthy", health_score |-> 100]
OneError(bad) ==
  [agents |-> [a \in AgentNames |-> IF a = bad THEN AgentError ELSE AgentActive],
   collective_status |-> "degraded", health_score |-> 87]
MixedFleet ==
  [agents |-> [a \in AgentNames |->
                 IF a = "3L1J4H" THEN AgentError
                 ELSE IF a = "M0S3S" THEN AgentSlow
                 ELSE IF a = "D4N13L" THEN AgentFlaky
                 ELSE IF a = "J05HU4" THEN AgentAtThreshold
                 ELSE AgentActive],
   collective_status |-> "degraded", health_score |-> 60]
FleetPayloads == {AllActive, OneError("M0S3S"), OneError("IESOUS"), MixedFleet}

(* a UsageCallRecord: its timestamp, in hours, and its success flag *)
Call(timestamp, success) == [timestamp |-> timestamp, success |-> success]

(* UsageUpdateMessage payloads; the calls of recent_calls are made at hour  *)
(* 7 of the day that follows the first clock value                         *)
UsagePayloads ==
  {[monthly_usage |-> 900, monthly_limit |-> 1000, usage_percentage |-> 90,
    recent_calls |-> <<Call(55, TRUE), Call(55, TRUE)>>],
   [monthly_usage |-> 100, monthly_limit |-> 1000, usage_percentage |-> 10,
    recent_calls |-> <<Call(55, TRUE), Call(55, FALSE), Call(55, TRUE)>>]}

(* QuotaWarningMessage payloads *)
QuotaPayloads ==
  {[warning_type |-> "approaching", percentage_used |-> 90],
   [warning_type |-> "exceeded", percentage_used |-> 100]}

(* message.data is a sequence of length 0 (no data) or 1 *)
Message(type, data) == [type |-> type, data |-> data]

(* the envelopes the peer sends besides auth_result; "heartbeat" is a type *)
(* outside MessageType                                                     *)
InboundMessages ==
  {Message(t, <<>>) : t \in {"pong", "error", "heartbeat", "alert", "layer_routing"}}
    \cup {Message("usage_update", <<d>>) : d \in UsagePayloads}
    \cup {Message("quota_warning", <<d>>) : d \in QuotaPayloads}
    \cup {Message("agent_status", <<d>>) : d \in FleetPayloads}

(* a message handler that treats a server error as the end of the          *)
(* connection                                                              *)
ReceiveFatal(s, msg) ==
  /\ sockStatus[s] = "open"
  /\ lastPong' = IF msg.type = "pong" THEN now ELSE lastPong
  /\ error' = IF msg.type = "error" THEN "server_error" ELSE error
  /\ connected' = IF msg.type = "error" THEN FALSE ELSE connected
  /\ authenticated' = IF msg.type = "error" THEN FALSE ELSE authenticated
  /\ delivered' = <<"onMessage">>
  /\ UNCHANGED <<refVars, pingLive, reconLive>>
  /\ FinishIO(sockStatus, snap, authPending, serverSubs, CurMem)
  /\ UNCHANGED <<connecting, retryCount, userInfo, pendingSubscriptions,
                 consVars, histVars, now, loading, usageState, fleetState>>

(* socket.on('message') of socket s with an envelope other than            *)
(* auth_result: pong records lastPong, error records the error text, and   *)
(* every envelope is handed to opts.onMessage.  The handleWebSocketMessage *)
(* callbacks of the consumer hooks are registered nowhere, so no consumer  *)
(* state changes.                                                          *)
Receive(s, msg) ==
  /\ sockStatus[s] = "open"
  /\ lastPong' = IF msg.type = "pong" THEN now ELSE lastPong
  /\ error' = IF msg.type = "error" THEN "server_error" ELSE error
  /\ delivered' = <<"onMessage">>
  /\ UNCHANGED <<refVars, pingLive, reconLive>>
  /\ FinishIO(sockStatus, snap, authPending, serverSubs, CurMem)
  /\ UNCHANGED <<connected, authenticated, connecting, retryCount, userInfo,
                 pendingSubscriptions, consVars, histVars, now, loading, usageState,
                 fleetState>>

(* time passes *)
Tick ==
  /\ now < MaxClock
  /\ now' = now + 1
  /\ emitted' = <<>>
  /\ UNCHANGED <<connVars, refVars, messageQueue, pendingSubscriptions, sockVars,
                 srvVars, consVars, histVars, lastPong, delivered, loading, usageState,
                 fleetState>>

(* refreshUsage() / refreshStatus() of consumer c *)
Refresh(c) ==
  /\ active[c]
  /\ UNCHANGED <<connVars, refVars, pingLive, reconLive>>
  /\ IF authenticated
       THEN /\ loading' = [loading EXCEPT ![c] = TRUE]
            /\ \E thr \in ThrowChoices :
                 FinishIO(sockStatus, snap, authPending, serverSubs,
                          sendMessage(CurMem, socketRef, connected, ConsumerQuery(c), {},
                                      thr))
       ELSE /\ UNCHANGED loading
            /\ FinishIO(sockStatus, snap, authPending, serverSubs, CurMem)
  /\ UNCHANGED <<pendingSubscriptions, consVars, histVars, lastPong, now, delivered,
                 usageState, fleetState>>

(* ---- the consumer hooks' message handlers, as functions ---- *)
(* useRealTimeUsage is called with enableAnalytics: true *)
enableAnalytics == TRUE

(* the clock value t as a time in hours, and Date.getHours() of a time *)
HoursPerDay == 24
HourOf(t) == HoursPerDay * (t + 1)
getHours(timestamp) == timestamp % HoursPerDay

(* recentCalls.filter(call => timestamp > now - 24 h) *)
last24h(recentCalls, t) ==
  SelectSeq(recentCalls, LAMBDA call : call.timestamp > HourOf(t) - HoursPerDay)

(* a midpoint rounded up *)
halfPointUp(n) == (n + 1) \div 2
(* Math.floor(length / 2) *)
halfPoint(n) == n \div 2

(* a trend that compares the first half with the second *)
trendReversed(firstHalf, secondHalf) ==
  IF firstHalf * 10 > secondHalf * 11 THEN "increasing"
  ELSE IF firstHalf * 10 < secondHalf * 9 THEN "decreasing"
  ELSE "stable"
(* secondHalf > firstHalf * 1.1, secondHalf < firstHalf * 0.9, in tenths *)
trend(firstHalf, secondHalf) ==
  IF secondHalf * 10 > firstHalf * 11 THEN "increasing"
  ELSE IF secondHalf * 10 < firstHalf * 9 THEN "decreasing"
  ELSE "stable"

(* new Array(24).fill(0), incremented at the hour of each call *)
hourCounts(calls) ==
  [hour \in 0..(HoursPerDay - 1) |->
     Cardinality({i \in DOMAIN calls : getHours(calls[i].timestamp) = hour})]

(* an insertion that puts an hour before the hours of equal count *)
insertByCountUnstable(sorted, hour, counts) ==
  LET behind == {i \in DOMAIN sorted : counts[sorted[i]] <= counts[hour]}
      pos == IF behind = {} THEN Len(sorted) + 1
             ELSE CHOOSE i \in behind : \A j \in behind : i <= j
  IN SubSeq(sorted, 1, pos - 1) \o <<hour>> \o SubSeq(sorted, pos, Len(sorted))
(* Array.prototype.sort with (a, b) => b.count - a.count is a stable sort  *)
(* by count descending: each hour, taken in ascending order, goes behind   *)
(* the hours whose count is at least its own                               *)
insertByCount(sorted, hour, counts) ==
  LET behind == {i \in DOMAIN sorted : counts[sorted[i]] < counts[hour]}
      pos == IF behind = {} THEN Len(sorted) + 1
             ELSE CHOOSE i \in behind : \A j \in behind : i <= j
  IN SubSeq(sorted, 1, pos - 1) \o <<hour>> \o SubSeq(sorted, pos, Len(sorted))

RECURSIVE sortByCount(_, _)
sortByCount(counts, k) ==
  IF k = 0 THEN <<>> ELSE insertByCount(sortByCount(counts, k - 1), k - 1, counts)

(* .sort(...).slice(0, 3).map(item => item.hour) *)
peakHours(counts) == SubSeq(sortByCount(counts, HoursPerDay), 1, 3)

(* calculateAnalytics: trend from the two halves of the calls of the last  *)
(* 24 hours, the three peak hours,                                         *)
(* efficiency = successful / all * 100 (rounded down here; the comparison  *)
(* with 90 is exact), and the recommendations in the order they are pushed *)
calculateAnalytics(usage, t) ==
  LET calls == last24h(usage.recent_calls, t)
      n == Len(calls)
      firstHalf == Len(SubSeq(calls, 1, halfPoint(n)))
      secondHalf == Len(SubSeq(calls, halfPoint(n) + 1, n))
      successfulCalls == Cardinality({i \in 1..n : calls[i].success})
      lowEfficiency == n > 0 /\ successfulCalls * 100 < 90 * n
  IN [trend |-> trend(firstHalf, secondHalf),
      peakHours |-> peakHours(hourCounts(calls)),
      efficiency |-> IF n > 0 THEN (successfulCalls * 100) \div n ELSE 100,
      recommendations |->
        (IF lowEfficiency THEN <<"review_error_patterns">> ELSE <<>>)
        \o (IF usage.usage_percentage > 80 THEN <<"usage_approaching_limit">> ELSE <<>>)
        \o (IF trend(firstHalf, secondHalf) = "increasing"
              THEN <<"usage_trending_upward">> ELSE <<>>)]

(* handleWebSocketMessage of useRealTimeUsage applied at time t *)
usageHandleWebSocketMessage(st, message, t) ==
  IF message.type = "usage_update" /\ message.data # <<>>
    THEN [st EXCEPT !.usage = message.data,
                    !.analytics = IF enableAnalytics
                                    THEN <<calculateAnalytics(message.data[1], t)>>
                                    ELSE @,
                    !.lastUpdate = t,
                    !.isRealTime = TRUE,
                    !.error = "null"]
  ELSE IF message.type = "quota_warning" /\ message.data # <<>>
    THEN [st EXCEPT !.quotaWarnings = Append(@, message.data[1])]
  ELSE IF message.type = "error"
    THEN [st EXCEPT !.error = "server_error"]
  ELSE st

(* options.alertThresholds as passed by AgentStatusDashboard, which are    *)
(* also the defaults; errorRate in thousandths                             *)
alertThresholds == [responseTime |-> 1000, errorRate |-> 50, healthScore |-> 80]

(* generateAlert(agent, type) at time t: the id is built from the agent's  *)
(* name and Date.now()                                                     *)
generateAlert(name, type, t) ==
  [id |-> <<"alert", name, t>>, agentName |-> name, type |-> type, timestamp |-> t,
   acknowledged |-> FALSE]

(* the newAlerts list of checkAgentHealth(agents) for the agents from      *)
(* position i on                                                           *)
RECURSIVE newAlerts(_, _, _)
newAlerts(agents, i, t) ==
  IF i > Len(AgentOrder) THEN <<>>
  ELSE LET name == AgentOrder[i]
           agent == agents[name]
           mine == IF name \notin DOMAIN agents THEN <<>>
                   ELSE IF agent.status = "error"
                     THEN <<generateAlert(name, "error", t)>>
                   ELSE IF \/ agent.response_time_ms > alertThresholds.responseTime
                           \/ agent.error_rate > alertThresholds.errorRate
                     THEN <<generateAlert(name, "warning", t)>>
                   ELSE <<>>
       IN mine \o newAlerts(agents, i + 1, t)

(* checkAgentHealth(agents): the alerts list after its setState *)
checkAgentHealth(alerts, agents, t) == alerts \o newAlerts(agents, 1, t)

(* handleWebSocketMessage of useAgentStatus (enableLayerRouting set)       *)
(* applied at time t                                                       *)
fleetHandleWebSocketMessage(st, message, t) ==
  IF message.type = "agent_status" /\ message.data # <<>>
    THEN [st EXCEPT !.agents = <<message.data[1].agents>>,
                    !.collectiveStatus = message.data[1].collective_status,
                    !.healthScore = message.data[1].health_score,
                    !.lastUpdate = t,
                    !.error = "null",
                    !.alerts = checkAgentHealth(@, message.data[1].agents, t)]
  ELSE IF message.type = "layer_routing" /\ message.data # <<>>
    THEN [st EXCEPT !.layerRouting = message.data]
  ELSE IF message.type = "error"
    THEN [st EXCEPT !.error = "server_error"]
  ELSE st

(* handleWebSocketMessage of useRealTimeUsage called with message *)
HandleUsageMessage(message) ==
  /\ \E st \in {usageHandleWebSocketMessage(usageState, message, now)} :
       /\ Len(st.quotaWarnings) <= MaxWarnings
       /\ usageState' = st
  /\ UNCHANGED <<managerVars, lastPong, now, delivered, loading, fleetState>>

(* clearWarnings() *)
ClearWarnings ==
  /\ usageState' = [usageState EXCEPT !.quotaWarnings = <<>>]
  /\ UNCHANGED <<managerVars, lastPong, now, delivered, loading, fleetState>>

(* handleWebSocketMessage of useAgentStatus called with message *)
HandleFleetMessage(message) ==
  /\ \E st \in {fleetHandleWebSocketMessage(fleetState, message, now)} :
       /\ Len(st.alerts) <= MaxAlerts
       /\ fleetState' = st
  /\ UNCHANGED <<managerVars, lastPong, now, delivered, loading, usageState>>

(* acknowledgeAlert(alertId) *)
AcknowledgeAlert(alertId) ==
  /\ fleetState' = [fleetState EXCEPT !.alerts =
                      [i \in DOMAIN @ |-> IF @[i].id = alertId
                                            THEN [@[i] EXCEPT !.acknowledged = TRUE]
                                            ELSE @[i]]]
  /\ UNCHANGED <<managerVars, lastPong, now, delivered, loading, usageState>>

(* clearAlerts() *)
ClearAlerts ==
  /\ fleetState' = [fleetState EXCEPT !.alerts = <<>>]
  /\ UNCHANGED <<managerVars, lastPong, now, delivered, loading, usageState>>

(* the connection manager and its transport *)
Next ==
  \/ Connect
  \/ Disconnect
  \/ SendMessage
  \/ Authenticate
  \/ \E s \in Sockets : SocketConnect(s)
  \/ \E s \in Sockets : SocketDisconnect(s)
  \/ \E s \in Sockets : SocketConnectError(s)
  \/ \E s \in Sockets : AuthResultOk(s)
  \/ \E s \in Sockets : AuthResultFailed(s)
  \/ \E s \in Sockets : ReconnectTimerFires(s)

Spec == Init /\ [][Next]_vars

(* the automatic retry loop of a mounted manager that the caller leaves    *)
(* alone but for authenticate(), with its keepalive timers and with the    *)
(* failures history kept                                                   *)
NextRetry ==
  \/ Authenticate
  \/ \E s \in Sockets : SocketConnect(s)
  \/ \E s \in Sockets : SocketDisconnect(s)
  \/ \E s \in Sockets : SocketConnectError(s)
  \/ \E s \in Sockets : AuthResultOk(s)
  \/ \E s \in Sockets : ReconnectTimerFires(s)
  \/ \E s \in Sockets : PingTimerFires(s)

SpecRetry == InitRetry /\ [][NextRetry]_vars

(* topic registration by callers and consumer hooks, with the peer's       *)
(* subscribed topics kept                                                  *)
NextSubs ==
  \/ Connect
  \/ Disconnect
  \/ Authenticate
  \/ Subscribe
  \/ Unsubscribe
  \/ \E c \in Consumers : ConsumerEffect(c)
  \/ \E c \in Consumers : Deactivate(c)
  \/ \E s \in Sockets : SocketConnect(s)
  \/ \E s \in Sockets : AuthResultOk(s)

SpecSubs == InitSubs /\ [][NextSubs]_vars

(* a mounted manager with its peer's envelopes, the clock and the consumer *)
(* hooks' effects and refresh actions                                      *)
InitInbound ==
  InitMounted /\ emitFaults = FALSE /\ countFailures = FALSE /\ trackSubs = FALSE

NextInbound ==
  \/ Authenticate
  \/ Tick
  \/ \E c \in Consumers : ConsumerEffect(c)
  \/ \E c \in Consumers : Refresh(c)
  \/ \E s \in Sockets : SocketConnect(s)
  \/ \E s \in Sockets : SocketDisconnect(s)
  \/ \E s \in Sockets : AuthResultOk(s)
  \/ \E s \in Sockets : ReconnectTimerFires(s)
  \/ \E s \in Sockets, msg \in InboundMessages : Receive(s, msg)

SpecInbound == InitInbound /\ [][NextInbound]_vars

(* the manager with a transport whose emit() and whose creation may throw: *)
(* the catch branches of sendMessage, processMessageQueue and connect      *)
InitFaults == InitBase /\ emitFaults = TRUE /\ countFailures = FALSE /\ trackSubs = FALSE

NextFaults ==
  \/ Connect
  \/ Disconnect
  \/ SendMessage
  \/ Authenticate
  \/ \E s \in Sockets : SocketConnect(s)
  \/ \E s \in Sockets : AuthResultOk(s)

SpecFaults == InitFaults /\ [][NextFaults]_vars

(* the message handler of each consumer hook as a function of the hook's   *)
(* state, the envelope and the time.  No code path calls these handlers    *)
(* (see Receive); the two specifications below apply them directly, to     *)
(* the envelopes the peer sends, as the unit under study.                  *)
NextUsageHook ==
  \/ Tick
  \/ ClearWarnings
  \/ \E msg \in InboundMessages : HandleUsageMessage(msg)

SpecUsageHook == Init /\ [][NextUsageHook]_vars

(* calculateAnalytics on the snapshots of a peer whose recent-call buffer  *)
(* grows call by call while time passes: calls at hours 18, 0 and 7, the   *)
(* first two more than 24 hours old at the second clock value              *)
CallTimes == {42, 48, 55}
Calls == {Call(timestamp, success) : timestamp \in CallTimes, success \in BOOLEAN}

RECURSIVE Repeat(_, _)
Repeat(call, k) == IF k = 0 THEN <<>> ELSE Append(Repeat(call, k - 1), call)

(* the histogram of the specification's example: 9 calls at hour 18, 5 at  *)
(* hour 0, 1 at every other hour, all within 24 hours of the first clock   *)
(* value                                                                   *)
ExampleCount(hour) == IF hour = 18 THEN 9 ELSE IF hour = 0 THEN 5 ELSE 1
RECURSIVE ExampleCalls(_)
ExampleCalls(k) ==
  IF k = 0 THEN <<>>
  ELSE ExampleCalls(k - 1)
         \o Repeat(Call(HoursPerDay + k, TRUE), ExampleCount(k % HoursPerDay))

(* 21 calls: the shortest odd buffer whose halves differ by less than 10% *)
LongCalls == Repeat(Call(55, TRUE), 21)

Usage(recentCalls) ==
  [monthly_usage |-> 100, monthly_limit |-> 1000, usage_percentage |-> 10,
   recent_calls |-> recentCalls]

AnalyticsPayloads == {Usage(<<>>), Usage(ExampleCalls(HoursPerDay)), Usage(LongCalls)}

(* the peer publishes a snapshot *)
Snapshot(usage) == HandleUsageMessage(Message("usage_update", <<usage>>))

(* the peer records one more call and publishes the snapshot *)
RecordCall(call) ==
  /\ usageState.usage # <<>>
  /\ Len(usageState.usage[1].recent_calls) < MaxCalls
  /\ Snapshot([usageState.usage[1] EXCEPT !.recent_calls = Append(@, call)])

NextAnalytics ==
  \/ Tick
  \/ \E usage \in AnalyticsPayloads : Snapshot(usage)
  \/ \E call \in Calls : RecordCall(call)

SpecAnalytics == Init /\ [][NextAnalytics]_vars

NextFleetHook ==
  \/ Tick
  \/ ClearAlerts
  \/ \E a \in AgentNames, t \in 1..MaxClock : AcknowledgeAlert(<<"alert", a, t>>)
  \/ \E msg \in InboundMessages : HandleFleetMessage(msg)

SpecFleetHook == Init /\ [][NextFleetHook]_vars

(***************************************************************************)
(* Properties                                                              *)
(***************************************************************************)
Envelope(type) == [type |-> type, topics |-> {}]

Envs(o) == [i \in DOMAIN o |-> o[i].env]

(* the envelopes q are emitted by o as one block, in order *)
EmitsInOrder(o, q) ==
  \E k \in 0..Len(o) : k + Len(q) <= Len(o) /\ SubSeq(Envs(o), k + 1, k + Len(q)) = q

Transports == {s \in Sockets : sockStatus[s] \in {"opening", "open"}}

C2_QueueDrainedOnAuthenticated ==
  [][\A s \in Sockets :
       AuthResultOk(s) /\ ~authenticated =>
         /\ messageQueue' = <<>>
         /\ EmitsInOrder(emitted', messageQueue)]_vars

(* C3: a manual disconnect() leaves no reconnect timer and no keepalive    *)
(* timer pending and resets the connection state to its initial value.     *)
C3_DisconnectLeavesNoTimer ==
  [][Disconnect =>
       /\ \A s \in Sockets : ~reconLive'[s] /\ ~pingLive'[s]
       /\ ~connected' /\ ~authenticated' /\ ~connecting'
       /\ retryCount' = 0 /\ error' = "none"]_vars

(* C4 as stated: after an auth_result with success = false the manager     *)
(* records the error and is Disconnected: neither connected nor            *)
(* authenticated.                                                          *)
C4_AuthFailureDisconnects ==
  [][\A s \in Sockets :
       AuthResultFailed(s) =>
         /\ error' = "auth_failed"
         /\ ~connected'
         /\ ~authenticated']_vars

(* C4 amended: an auth_result with success = false records the error and   *)
(* clears authenticated, but leaves connected and the transport as they    *)
(* were; the handler sends no envelope and schedules no reconnect.         *)
C4_AuthFailureKeepsTransport ==
  [][\A s \in Sockets :
       AuthResultFailed(s) =>
         /\ error' = "auth_failed"
         /\ ~authenticated'
         /\ connected' = connected
         /\ sockStatus'[s] = "open"
         /\ socketRef' = socketRef
         /\ emitted' = <<>>
         /\ messageQueue' = messageQueue
         /\ reconLive' = reconLive
         /\ reconnectTimeoutRef' = reconnectTimeoutRef
         /\ retryCount' = retryCount]_vars

(* the authentication failure is recorded while the manager still counts   *)
(* as connected over its open transport                                    *)
C4_Witness ==
  /\ error = "auth_failed"
  /\ connected
  /\ ~authenticated
  /\ socketRef # NoSocket
  /\ sockStatus[socketRef] = "open"

(* C5: after MaxReconnectAttempts consecutive failures with no successful  *)
(* authentication in between, no reconnect timer is pending any more.      *)
C5_GivesUpAfterMaxAttempts ==
  failures >= MaxReconnectAttempts => \A s \in Sockets : ~reconLive[s]

(* C6: the delay scheduled after the k-th consecutive failure, k below     *)
(* MaxReconnectAttempts, is min(ReconnectInterval * 2^(k-1), MaxDelay).    *)
C6_BackoffDoubles ==
  [][\A s \in Sockets :
       SocketDisconnect(s) /\ reconLive'[s] /\ failures' < MaxReconnectAttempts =>
         reconnectDelay(snap[s]) =
           Min(ReconnectInterval * Pow2(failures' - 1), MaxDelay)]_vars

(* C7: a connection error during a reconnect attempt, with the retry count *)
(* below MaxReconnectAttempts, records the error and leaves a reconnect    *)
(* timer pending.                                                          *)
C7_ConnectErrorSchedulesRetry ==
  [][\A s \in Sockets :
       SocketConnectError(s) /\ retryCount > 0 /\ retryCount < MaxReconnectAttempts =>
         /\ error' = "connect_error"
         /\ \E t \in Sockets : reconLive'[t]]_vars

(* C8: at most one transport, open or opening, exists at any time.         *)
C8_SingleTransport == Cardinality(Transports) <= 1

(* C9: when two consumers have registered a topic and one is already       *)
(* deactivated, deactivating the other emits an unsubscribe envelope       *)
(* naming that topic.                                                      *)
C9_LastDeactivationUnsubscribes ==
  [][\A c \in Consumers : \A d \in Consumers \ {c} :
       /\ Deactivate(c)
       /\ registered[c] /\ registered[d] /\ ~active[d]
       /\ \A x \in Consumers \ {c} : ~active[x] \/ ConsumerTopics(x) \cap ConsumerTopics(c) = {}
       =>
       \A t \in ConsumerTopics(c) \cap ConsumerTopics(d) :
         \E i \in DOMAIN emitted' :
           emitted'[i].env.type = "unsubscribe" /\ t \in emitted'[i].env.topics]_vars

(* every subscribe envelope of o names only topics that are not active on  *)
(* its connection, given the active topics subs of every connection        *)
RECURSIVE FreshSubscribes(_, _)
FreshSubscribes(subs, o) ==
  IF o = <<>> THEN TRUE
  ELSE LET h == Head(o)
       IN IF h.sock = NoSocket THEN FreshSubscribes(subs, Tail(o))
          ELSE /\ h.env.type = "subscribe" => h.env.topics \cap subs[h.sock] = {}
               /\ FreshSubscribes([subs EXCEPT ![h.sock] = ApplySubs(@, <<h>>, h.sock)],
                                  Tail(o))

(* C10: within one connection no subscribe envelope names a topic that is  *)
(* already active on that connection.                                      *)
C10_NoRepeatedSubscribe == [][FreshSubscribes(serverSubs, emitted')]_vars

(* C11: when authentication succeeds with topics pending, one subscribe    *)
(* envelope carrying every pending topic is emitted and the pending set is *)
(* empty afterwards.                                                       *)
C11_PendingFlushedOnAuthenticated ==
  [][\A s \in Sockets :
       AuthResultOk(s) /\ ~authenticated /\ pendingSubscriptions # {} =>
         /\ pendingSubscriptions' = {}
         /\ \E i \in DOMAIN emitted' :
              /\ emitted'[i].env.type = "subscribe"
              /\ pendingSubscriptions \subseteq emitted'[i].env.topics]_vars

(* the envelope types the handler of consumer c acts on *)
HandledTypes(c) ==
  IF c \in {"usage", "usage2"} THEN {"usage_update", "quota_warning"}
  ELSE {"agent_status", "layer_routing"}

(* C12: every inbound envelope is handed once to the any-message observer  *)
(* and also to the handler of every mounted consumer that handles its type.*)
C12_RouterDelivers ==
  [][\A s \in Sockets : \A msg \in InboundMessages :
       Receive(s, msg) =>
         /\ Cardinality({i \in DOMAIN delivered' : delivered'[i] = "onMessage"}) = 1
         /\ \A c \in Consumers :
              active[c] /\ registered[c] /\ msg.type \in HandledTypes(c) =>
                \E i \in DOMAIN delivered' : delivered'[i] = c]_vars

(* envelopes the manager has no branch for, and the server error envelope *)
UnknownOrError == {Message(t, <<>>) : t \in {"error", "heartbeat", "alert"}}

(* C13: an inbound envelope of a type the manager does not know, or a      *)
(* server error envelope, leaves connected, authenticated, connecting,     *)
(* retryCount, the timers, the sockets and the outbound queue as they were *)
(* and emits nothing; an error envelope records the error text and any     *)
(* other leaves the error field alone.                                     *)
C13_InboundKeepsLifecycle ==
  [][\A s \in Sockets : \A msg \in UnknownOrError :
       Receive(s, msg) =>
         /\ connected' = connected
         /\ authenticated' = authenticated
         /\ connecting' = connecting
         /\ retryCount' = retryCount
         /\ refVars' = refVars
         /\ pingLive' = pingLive
         /\ reconLive' = reconLive
         /\ sockStatus' = sockStatus
         /\ messageQueue' = messageQueue
         /\ emitted' = <<>>
         /\ lastPong' = lastPong
         /\ error' = IF msg.type = "error" THEN "server_error" ELSE error]_vars

(* a server error envelope has been recorded while the manager stays       *)
(* authenticated over its open transport with the keepalive timer running  *)
C13_Witness ==
  /\ error = "server_error"
  /\ delivered = <<"onMessage">>
  /\ connected
  /\ authenticated
  /\ socketRef # NoSocket
  /\ sockStatus[socketRef] = "open"
  /\ pingLive[socketRef]
  /\ messageQueue # <<>>

(* C14: a refresh() of a consumer whose earlier refresh is still in flight  *)
(* (its loading flag is set, its query was the last thing sent and no      *)
(* envelope has arrived since) neither emits nor queues a second query.    *)
C14_SingleOutstandingRefresh ==
  [][\A c \in Consumers :
       /\ Refresh(c)
       /\ loading[c]
       /\ \E i \in DOMAIN emitted : emitted[i].env.type = ConsumerQuery(c)
       =>
       /\ emitted' = <<>>
       /\ messageQueue' = messageQueue]_vars

(* C15: after a usage_update (agent_status) envelope is received while the  *)
(* Usage (Fleet) consumer is mounted and registered, the consumer's        *)
(* snapshot is exactly the payload of that envelope.                       *)
C15_SnapshotIsLatestPayload ==
  [][\A s \in Sockets : \A msg \in InboundMessages :
       Receive(s, msg) =>
         /\ msg.type = "usage_update" /\ active["usage"] /\ registered["usage"] =>
              usageState'.usage = msg.data
         /\ msg.type = "agent_status" /\ active["fleet"] /\ registered["fleet"] =>
              /\ fleetState'.agents = <<msg.data[1].agents>>
              /\ fleetState'.collectiveStatus = msg.data[1].collective_status
              /\ fleetState'.healthScore = msg.data[1].health_score]_vars

(* the near-limit entries, at 90 percent, of a consumer's warning list *)
NearLimitAlerts(st) ==
  {i \in DOMAIN st.quotaWarnings : st.quotaWarnings[i].percentage_used = 90}

(* C16: when the Usage consumer's handler processes a usage_update with    *)
(* monthly_usage = 900 and monthly_limit = 1000, holding at most the       *)
(* near-limit alert of an earlier such envelope, the consumer holds        *)
(* exactly one near-limit alert at 90 percent afterwards.                  *)
C16_NearLimitAlertOnce ==
  [][\A msg \in InboundMessages :
       /\ HandleUsageMessage(msg)
       /\ msg.type = "usage_update"
       /\ msg.data[1].monthly_usage = 900
       /\ msg.data[1].monthly_limit = 1000
       /\ NearLimitAlerts(usageState) \in {{}, {1}}
       /\ Len(usageState.quotaWarnings) <= 1
       => Cardinality(NearLimitAlerts(usageState')) = 1]_vars

(* the agents of a payload that are in error state or exceed a threshold *)
Offending(agents) ==
  {a \in DOMAIN agents :
     \/ agents[a].status = "error"
     \/ agents[a].response_time_ms > alertThresholds.responseTime
     \/ agents[a].error_rate > alertThresholds.errorRate}

(* the alerts of after that were added to before name every agent of       *)
(* agents that offends exactly once and no other agent                     *)
OneNewAlertEach(before, after, agents) ==
  /\ Len(before) <= Len(after)
  /\ SubSeq(after, 1, Len(before)) = before
  /\ \A a \in DOMAIN agents :
       Cardinality({i \in Len(before) + 1 .. Len(after) : after[i].agentName = a})
         = IF a \in Offending(agents) THEN 1 ELSE 0

(* C17: for each agent_status envelope received while the Fleet consumer   *)
(* is mounted and registered, the consumer's alert list gains exactly one  *)
(* alert for every agent in error state or over a threshold, and none for  *)
(* any other agent.                                                        *)
C17_OneAlertPerOffendingAgent ==
  [][\A s \in Sockets : \A msg \in InboundMessages :
       /\ Receive(s, msg)
       /\ msg.type = "agent_status"
       /\ active["fleet"] /\ registered["fleet"]
       => OneNewAlertEach(fleetState.alerts, fleetState'.alerts, msg.data[1].agents)]_vars

(* checkAgentHealth as a function: whenever the Fleet handler is applied   *)
(* to an agent_status envelope, the alerts it appends name each offending  *)
(* agent once and no other agent                                           *)
CheckAgentHealthOnePerAgent ==
  [][\A msg \in InboundMessages :
       HandleFleetMessage(msg) /\ msg.type = "agent_status" =>
         OneNewAlertEach(fleetState.alerts, fleetState'.alerts, msg.data[1].agents)]_vars

(* C18: when the Fleet handler processes again the snapshot it holds, and  *)
(* every offending agent already has an unacknowledged alert, the alert    *)
(* list is left unchanged.                                                 *)
C18_ReprocessingAddsNoAlert ==
  [][\A msg \in InboundMessages :
       /\ HandleFleetMessage(msg)
       /\ msg.type = "agent_status"
       /\ fleetState.agents = <<msg.data[1].agents>>
       /\ \A a \in Offending(msg.data[1].agents) :
            \E i \in DOMAIN fleetState.alerts :
              fleetState.alerts[i].agentName = a /\ ~fleetState.alerts[i].acknowledged
       => fleetState'.alerts = fleetState.alerts]_vars

(* a retention limit N below the list lengths the model explores *)
RetainedN == MaxAlerts - 1

(* C19: the Fleet consumer's alert list never holds more than N entries.   *)
C19_AlertListBounded == Len(fleetState.alerts) <= RetainedN

(* C20: the keepalive timer ticks, sending or queueing a ping, only while  *)
(* the manager is Authenticated.                                           *)
C20_KeepaliveOnlyWhileAuthenticated ==
  [][\A s \in Sockets : PingTimerFires(s) => connected /\ authenticated]_vars

(* C21: a manual disconnect() leaves the outbound queue empty, so that no  *)
(* envelope queued before it can go out on a later connection.             *)
C21_DisconnectEmptiesQueue ==
  [][Disconnect /\ messageQueue # <<>> => messageQueue' = <<>>]_vars

(* C23: right after an auth_result with success = true is processed the    *)
(* manager is connected and authenticated, holds the identity the server   *)
(* returned, and its retry count is 0.                                     *)
C23_AuthSuccessReachesAuthenticated ==
  [][\A s \in Sockets :
       AuthResultOk(s) =>
         /\ connected' /\ authenticated'
         /\ userInfo' = "user"
         /\ retryCount' = 0]_vars

(* C25: when a transport connects, its connect handler emits the auth      *)
(* envelope before anything else: the emissions of the step are not empty  *)
(* and begin with auth.                                                    *)
C25_AuthEmittedFirst ==
  [][\A s \in Sockets :
       SocketConnect(s) =>
         /\ emitted' # <<>>
         /\ emitted'[1].env.type = "auth"]_vars

(* occurrences of envelope e in the sequence q *)
Count(q, e) == Cardinality({i \in DOMAIN q : q[i] = e})

(* C26: no envelope is lost, also when emit throws: in every step each     *)
(* queued envelope is afterwards still queued or has been emitted, and an  *)
(* envelope passed to sendMessage() is afterwards queued or emitted.       *)
C26_NoEnvelopeLost ==
  [][/\ \A i \in DOMAIN messageQueue :
          Count(messageQueue, messageQueue[i])
            <= Count(messageQueue', messageQueue[i]) + Count(Envs(emitted'), messageQueue[i])
     /\ \A type \in CallerTypes \cup {"auth"} :
          CallerSend(type, {}) =>
            Count(messageQueue', Envelope(type)) + Count(Envs(emitted'), Envelope(type))
              = Count(messageQueue, Envelope(type)) + 1]_vars

(* a drain has emitted some envelopes and put back one whose emit threw *)
C26_Witness ==
  /\ emitFaults
  /\ Len(emitted) >= 2
  /\ messageQueue # <<>>

(* C27: in every reachable state authenticated implies connected, and     *)
(* connecting excludes connected.                                          *)
C27_StateFlagsConsistent ==
  /\ authenticated => connected
  /\ ~(connecting /\ connected)

(* C28: at most one keepalive interval and at most one reconnect timer are *)
(* pending, and each pending timer is the one its handle refers to, so     *)
(* disconnect() can cancel it.                                             *)
C28_TimersTracked ==
  /\ Cardinality({s \in Sockets : pingLive[s]}) <= 1
  /\ Cardinality({s \in Sockets : reconLive[s]}) <= 1
  /\ \A s \in Sockets : pingLive[s] => pingIntervalRef = s
  /\ \A s \in Sockets : reconLive[s] => reconnectTimeoutRef = s

(* the snapshot envelope that answers consumer c's refresh query *)
SnapshotType(c) == IF ConsumerQuery(c) = "get_usage" THEN "usage_update" ELSE "agent_status"

Analysed == usageState.analytics # <<>>
BufferCalls == usageState.usage[1].recent_calls
WindowCalls ==
  SelectSeq(BufferCalls,
            LAMBDA call : call.timestamp > HoursPerDay * usageState.lastUpdate)
CallsAtHour(hour) ==
  Cardinality({i \in DOMAIN WindowCalls : WindowCalls[i].timestamp % HoursPerDay = hour})
Outranks(a, b) ==
  \/ CallsAtHour(a) > CallsAtHour(b)
  \/ CallsAtHour(a) = CallsAtHour(b) /\ a < b

(* C22: the peak hours are the three hours with the highest counts of the  *)
(* 24-entry histogram, by count descending and, among equal counts, by     *)
(* ascending hour; maxima 9 at hour 18 and 5 at hour 0 give [18, 0, ...].  *)
C22_PeakHoursTopThree ==
  Analysed =>
    LET p == usageState.analytics[1].peakHours
    IN /\ Len(p) = 3
       /\ Outranks(p[1], p[2])
       /\ Outranks(p[2], p[3])
       /\ \A hour \in (0..(HoursPerDay - 1)) \ {p[1], p[2], p[3]} : Outranks(p[3], hour)
       /\ (/\ CallsAtHour(18) = 9
           /\ CallsAtHour(0) = 5
           /\ \A hour \in (1..(HoursPerDay - 1)) \ {18} : CallsAtHour(hour) < 5)
            => p[1] = 18 /\ p[2] = 0

C22_Witness ==
  /\ Analysed
  /\ CallsAtHour(18) = 9
  /\ CallsAtHour(0) = 5
  /\ usageState.analytics[1].peakHours = <<18, 0, 1>>

(* the trend of two call counts, as a percentage of the first *)
TrendOfCounts(first, second) ==
  IF (second - first) * 100 > 10 * first THEN "increasing"
  ELSE IF (first - second) * 100 > 10 * first THEN "decreasing"
  ELSE "stable"
TrendOfHalves(calls) ==
  LET mid == Len(calls) \div 2
  IN TrendOfCounts(Len(SubSeq(calls, 1, mid)), Len(SubSeq(calls, mid + 1, Len(calls))))

(* C24 as amended: the trend is obtained by splitting the calls of the     *)
(* buffer that are less than 24 hours old at their midpoint and comparing  *)
(* the call counts of the two halves: increasing when the second exceeds   *)
(* the first by more than 10%, decreasing when it falls short by more than *)
(* 10%, otherwise stable.                                                  *)
C24_TrendFromWindowHalves ==
  Analysed => usageState.analytics[1].trend = TrendOfHalves(WindowCalls)

(* C24 as stated: the trend is obtained by splitting the recent-call       *)
(* buffer at its midpoint and comparing the call counts of the two halves. *)
C24_TrendFromBufferHalves ==
  Analysed => usageState.analytics[1].trend = TrendOfHalves(BufferCalls)

C24_Witness ==
  /\ Analysed
  /\ Len(BufferCalls) = 3
  /\ Len(WindowCalls) = 2
  /\ usageState.analytics[1].trend = "stable"

(* C30 as amended: with n the number of calls of the buffer that are less  *)
(* than 24 hours old, the trend is never decreasing, is stable for every   *)
(* even n, and is the trend of the counts floor(n/2) and n - floor(n/2).   *)
C30_TrendDependsOnWindowCount ==
  Analysed =>
    LET n == Len(WindowCalls)
        tr == usageState.analytics[1].trend
    IN /\ tr # "decreasing"
       /\ n % 2 = 0 => tr = "stable"
       /\ tr = TrendOfCounts(n \div 2, n - (n \div 2))

(* C30 as stated: for a recent-call buffer of n calls the trend is never   *)
(* decreasing, is stable for every even n, and depends only on n.          *)
C30_TrendDependsOnBufferLength ==
  Analysed =>
    LET n == Len(BufferCalls)
        tr == usageState.analytics[1].trend
    IN /\ tr # "decreasing"
       /\ n % 2 = 0 => tr = "stable"
       /\ tr = TrendOfCounts(n \div 2, n - (n \div 2))

C30_Witness ==
  /\ Analysed
  /\ Len(WindowCalls) = 21
  /\ Len(BufferCalls) = 21
  /\ usageState.analytics[1].trend = "stable"

====
